---- MODULE Spec2Model ----
(***************************************************************************)
(* Solutions/NN_with_numpy.ipynb: a two-layer fully-connected ReLU network *)
(* trained by hand-written full-batch gradient descent.                    *)
(*                                                                         *)
(* The notebook is a straight-line script.  Its code cells were run once,  *)
(* in order (execution counts 1..8); the model follows the interpreter     *)
(* through them: In[1] is Init, In[3]..In[6] are one forward pass, cost,   *)
(* backward pass and update, In[7] draws the validation set and runs the   *)
(* training loop, whose body is followed statement group by statement      *)
(* group.  In[2] (prints of shapes) and In[8] (the plot) change no state.  *)
(*                                                                         *)
(* Numbers.  The arrays hold float64; the model holds integers.  Sums,     *)
(* differences and products of integers are exact in float64 (below 2^53), *)
(* so the model computes them exactly.  The one operation that leaves the  *)
(* integers is the product by learning_rate = 1e-6; there the model rounds *)
(* to the nearest integer (ties to even, the IEEE rounding rule) where     *)
(* float64 rounds to the nearest of its own values.                        *)
(***************************************************************************)
EXTENDS Integers, Sequences, FiniteSets, TLC

\* In[1], lines 62-65.  The source has N = 64, D_in = 1000, H = 100,
\* D_out = 10; the model keeps four pairwise different sizes.
N == 3
D_in == 4
H == 2
D_out == 1

\* Line 75: learning_rate = 1e-6 = 1 / LrInv.
LrInv == 1000000

\* Line 241.  The source has niteration = 500.
niteration == 3

(***************************************************************************)
(* numpy on two-dimensional arrays.  An array is a sequence of rows, each  *)
(* a sequence of numbers; Array(r, c, F) is the r x c array of F[i][j].    *)
(***************************************************************************)
Array(r, c, F) == SubSeq([i \in 1..r |-> SubSeq(F[i], 1, c)], 1, r)

shape(A) == <<Len(A), Len(A[1])>>

RECURSIVE SumTo(_, _)
SumTo(s, k) == IF k = 0 THEN 0 ELSE SumTo(s, k - 1) + s[k]

Sum(s) == SumTo(s, Len(s))

\* A.dot(B)
dot(A, B) ==
    Array(Len(A), Len(B[1]),
          [i \in 1..Len(A) |-> [j \in 1..Len(B[1]) |->
              Sum([k \in 1..Len(B) |-> A[i][k] * B[k][j]])]])

\* A.T
T(A) ==
    Array(Len(A[1]), Len(A),
          [i \in 1..Len(A[1]) |-> [j \in 1..Len(A) |->
              A[j][i]]])

\* np.abs(A) in place of np.maximum(A, c).
absolute(A, c) ==
    Array(Len(A), Len(A[1]),
          [i \in 1..Len(A) |-> [j \in 1..Len(A[1]) |->
              IF A[i][j] > c THEN A[i][j] ELSE c - A[i][j]]])

\* np.maximum(A, c)
maximum(A, c) ==
    Array(Len(A), Len(A[1]),
          [i \in 1..Len(A) |-> [j \in 1..Len(A[1]) |->
              IF A[i][j] > c THEN A[i][j] ELSE c]])

\* A - B
minus(A, B) ==
    Array(Len(A), Len(A[1]),
          [i \in 1..Len(A) |-> [j \in 1..Len(A[1]) |->
              A[i][j] - B[i][j]]])

\* c * A for an integer c
times(c, A) ==
    Array(Len(A), Len(A[1]),
          [i \in 1..Len(A) |-> [j \in 1..Len(A[1]) |->
              c * A[i][j]]])

\* np.square(A)
square(A) ==
    Array(Len(A), Len(A[1]),
          [i \in 1..Len(A) |-> [j \in 1..Len(A[1]) |->
              A[i][j] * A[i][j]]])

\* A.mean() in place of A.sum(): the loss normalised by the entry count.
mean(A) == Sum([i \in 1..Len(A) |-> Sum(A[i])]) \div (Len(A) * Len(A[1]))

\* A.sum()
sum(A) == Sum([i \in 1..Len(A) |-> Sum(A[i])])

\* G[M <= 0] = 0 in place of G[M < 0] = 0.
masked_nonpositive(G, M) ==
    Array(Len(G), Len(G[1]),
          [i \in 1..Len(G) |-> [j \in 1..Len(G[1]) |->
              IF M[i][j] <= 0 THEN 0 ELSE G[i][j]]])

\* G[M < 0] = 0 on a copy of G
masked(G, M) ==
    Array(Len(G), Len(G[1]),
          [i \in 1..Len(G) |-> [j \in 1..Len(G[1]) |->
              IF M[i][j] < 0 THEN 0 ELSE G[i][j]]])

\* n / d rounded to the nearest integer, ties to the even one (d > 0).
RoundDiv(n, d) ==
    LET q == n \div d
        r == n % d
    IN  IF 2 * r < d THEN q
        ELSE IF 2 * r > d THEN q + 1
        ELSE IF q % 2 = 0 THEN q ELSE q + 1

\* learning_rate * G
lr_times(G) ==
    Array(Len(G), Len(G[1]),
          [i \in 1..Len(G) |-> [j \in 1..Len(G[1]) |->
              RoundDiv(G[i][j], LrInv)]])

(***************************************************************************)
(* np.random.randn(r, c): the values the random source may hand out.  A    *)
(* sample is scale * (((a * (i + j) + k) % 3) - 1) at entry (i, j): the    *)
(* constant arrays -scale, 0, scale for a = 0 and three arrays of mixed    *)
(* sign for a = 1.                                                         *)
(***************************************************************************)
Sample(r, c, scale, a, k) ==
    Array(r, c,
          [i \in 1..r |-> [j \in 1..c |->
              scale * (((a * (i + j) + k) % 3) - 1)]])

randn(r, c, scale, As) == {Sample(r, c, scale, a, k) : a \in As, k \in 0..2}

\* A name no statement has bound yet: an array name holds Unbound, a number
\* name holds -1 (every number the script binds is >= 0).
Unbound == <<>>

VARIABLES
    x, y,                 \* training data (lines 68-69)
    w1, w2,               \* weights (lines 72-73)
    h, h_relu, y_pred,    \* forward pass
    total_cost,           \* the number In[4] binds to the name cost (line 157)
    cost,                 \* the list In[7] rebinds cost to (line 237)
    grad_y_pred, grad_w2, grad_h_relu, grad_h, grad_w1,
    x_val, y_val,         \* validation data (lines 233-234)
    counter, cost_val,    \* lines 238-239
    t, range_next,        \* loop variable and the range iterator's next value
    loss,
    h_val, h_relu_val, y_pred_val, loss_val,
    pc,                   \* the statement the interpreter is about to run
    \* history variables (not in the source)
    w1_init, w2_init,     \* the weights as randn returned them
    nupdates,             \* how many times lines 213-214 / 270-271 have run
    w1_start, w2_start    \* the weights when the current loop iteration began

data == <<x, y, x_val, y_val>>
weights == <<w1, w2>>
forward == <<h, h_relu, y_pred>>
grads == <<grad_y_pred, grad_w2, grad_h_relu, grad_h, grad_w1>>
valpass == <<h_val, h_relu_val, y_pred_val, loss_val>>
histories == <<cost, counter, cost_val>>
scalars == <<total_cost, t, range_next, loss>>
ghost == <<w1_init, w2_init, nupdates, w1_start, w2_start>>
vars == <<data, weights, forward, grads, valpass, histories, scalars, pc,
          ghost>>

\* In[1], lines 62-75.  The samples are of a size at which learning_rate *
\* gradient changes entries of w1 and of w2 in some runs and none in others.
Init ==
    /\ x \in randn(N, D_in, 20, {1})
    /\ y \in randn(N, D_out, 500, {0, 1})
    /\ w1 \in randn(D_in, H, 5, {0, 1})
    /\ w2 \in randn(H, D_out, 10, {1})
    /\ h = Unbound /\ h_relu = Unbound /\ y_pred = Unbound
    /\ total_cost = -1 /\ cost = Unbound
    /\ grad_y_pred = Unbound /\ grad_w2 = Unbound /\ grad_h_relu = Unbound
    /\ grad_h = Unbound /\ grad_w1 = Unbound
    /\ x_val = Unbound /\ y_val = Unbound
    /\ counter = Unbound /\ cost_val = Unbound
    /\ t = -1 /\ range_next = 0
    /\ loss = -1
    /\ h_val = Unbound /\ h_relu_val = Unbound /\ y_pred_val = Unbound
    /\ loss_val = -1
    /\ pc = "In3"
    /\ w1_init = w1 /\ w2_init = w2
    /\ nupdates = 0
    /\ w1_start = Unbound /\ w2_start = Unbound

\* In[3], lines 129-131.
In3 ==
    /\ pc = "In3"
    /\ h' = dot(x, w1)
    /\ h_relu' = maximum(h', 0)
    /\ y_pred' = dot(h_relu', w2)
    /\ pc' = "In4"
    /\ UNCHANGED <<data, weights, grads, valpass, histories, scalars,
                   ghost>>

\* In[4], lines 157-158.
In4 ==
    /\ pc = "In4"
    /\ total_cost' = sum(square(minus(y_pred, y)))
    /\ pc' = "In5"
    /\ UNCHANGED <<data, weights, forward, grads, valpass, histories, t,
                   range_next, loss, ghost>>

\* In[5], lines 190-195.
In5 ==
    /\ pc = "In5"
    /\ grad_y_pred' = times(2, minus(y_pred, y))
    /\ grad_w2' = dot(T(h_relu), grad_y_pred')
    /\ grad_h_relu' = dot(grad_y_pred', T(w2))
    /\ grad_h' = masked(grad_h_relu', h)
    /\ grad_w1' = dot(T(x), grad_h')
    /\ pc' = "In6"
    /\ UNCHANGED <<data, weights, forward, valpass, histories, scalars,
                   ghost>>

\* In[6] updating copies of the weights: w1, w2 stay as they were.
In6_on_copies ==
    /\ pc = "In6"
    /\ pc' = "In7"
    /\ UNCHANGED <<data, weights, forward, grads, valpass, histories, scalars,
                   ghost>>

\* In[6] with += in place of -=: a step up the gradient.
In6_ascent ==
    /\ pc = "In6"
    /\ w1' = minus(w1, lr_times(times(-1, grad_w1)))
    /\ w2' = minus(w2, lr_times(times(-1, grad_w2)))
    /\ nupdates' = nupdates + 1
    /\ pc' = "In7"
    /\ UNCHANGED <<data, forward, grads, valpass, histories, scalars,
                   w1_init, w2_init, w1_start, w2_start>>

\* In[6], lines 213-214.
In6 ==
    /\ pc = "In6"
    /\ w1' = minus(w1, lr_times(grad_w1))
    /\ w2' = minus(w2, lr_times(grad_w2))
    /\ nupdates' = nupdates + 1
    /\ pc' = "In7"
    /\ UNCHANGED <<data, forward, grads, valpass, histories, scalars,
                   w1_init, w2_init, w1_start, w2_start>>

\* In[7], lines 233-241: the validation set and the empty histories.
In7 ==
    /\ pc = "In7"
    /\ x_val' \in randn(N, D_in, 20, {1})
    /\ y_val' \in randn(N, D_out, 500, {1})
    /\ cost' = <<>>
    /\ counter' = <<>>
    /\ cost_val' = <<>>
    /\ range_next' = 0
    /\ pc' = "for"
    /\ UNCHANGED <<x, y, weights, forward, grads, valpass, total_cost, t, loss,
                   ghost>>

\* The loop body with the validation loss computed after the update.
body_validation_last ==
    <<"forward", "loss", "backprop", "update", "validation">>

\* The statement groups of the loop body, in source order (lines 244-271).
body == <<"forward", "loss", "validation", "backprop", "update">>

\* Where control goes after the group at p.
goto(p) ==
    LET k == CHOOSE i \in 1..Len(body) : body[i] = p
    IN  IF k = Len(body) THEN "for" ELSE body[k + 1]

\* A loop that also stops once the training loss is 0.
has_next_until_converged == range_next < niteration /\ loss # 0

\* Line 243: the range iterator has another value.
has_next == range_next < niteration

\* Line 243: for t in range(niteration).
For ==
    /\ pc = "for"
    /\ IF has_next
       THEN /\ t' = range_next
            /\ range_next' = range_next + 1
            /\ pc' = body[1]
            /\ w1_start' = w1 /\ w2_start' = w2
       ELSE /\ pc' = "done"
            /\ UNCHANGED <<t, range_next, w1_start, w2_start>>
    /\ UNCHANGED <<data, weights, forward, grads, valpass, histories,
                   total_cost, loss, w1_init, w2_init, nupdates>>

\* Lines 245-247.
Forward ==
    /\ pc = "forward"
    /\ h' = dot(x, w1)
    /\ h_relu' = maximum(h', 0)
    /\ y_pred' = dot(h_relu', w2)
    /\ pc' = goto("forward")
    /\ UNCHANGED <<data, weights, grads, valpass, histories, scalars,
                   ghost>>

\* cost[-1] = loss in place of cost.append(loss).
Loss_overwrite ==
    /\ pc = "loss"
    /\ loss' = sum(square(minus(y_pred, y)))
    /\ cost' = IF cost = <<>> THEN <<loss'>>
               ELSE [cost EXCEPT ![Len(cost)] = loss']
    /\ counter' = Append(counter, t)
    /\ pc' = goto("loss")
    /\ UNCHANGED <<data, weights, forward, grads, valpass, cost_val,
                   total_cost, t, range_next, ghost>>

\* Lines 250-252.
Loss ==
    /\ pc = "loss"
    /\ loss' = sum(square(minus(y_pred, y)))
    /\ cost' = Append(cost, loss')
    /\ counter' = Append(counter, t)
    /\ pc' = goto("loss")
    /\ UNCHANGED <<data, weights, forward, grads, valpass, cost_val,
                   total_cost, t, range_next, ghost>>

\* The validation error computed in place, in y_val.
Validation_in_place ==
    /\ pc = "validation"
    /\ h_val' = dot(x_val, w1)
    /\ h_relu_val' = maximum(h_val', 0)
    /\ y_pred_val' = dot(h_relu_val', w2)
    /\ y_val' = minus(y_pred_val', y_val)
    /\ loss_val' = sum(square(y_val'))
    /\ cost_val' = Append(cost_val, loss_val')
    /\ pc' = goto("validation")
    /\ UNCHANGED <<x, y, x_val, weights, forward, grads, cost, counter,
                   scalars, ghost>>

\* The validation pass without the activation.
Validation_no_relu ==
    /\ pc = "validation"
    /\ h_val' = dot(x_val, w1)
    /\ h_relu_val' = h_val'
    /\ y_pred_val' = dot(h_relu_val', w2)
    /\ loss_val' = sum(square(minus(y_pred_val', y_val)))
    /\ cost_val' = Append(cost_val, loss_val')
    /\ pc' = goto("validation")
    /\ UNCHANGED <<data, weights, forward, grads, cost, counter, scalars,
                   ghost>>

\* Lines 255-259.
Validation ==
    /\ pc = "validation"
    /\ h_val' = dot(x_val, w1)
    /\ h_relu_val' = maximum(h_val', 0)
    /\ y_pred_val' = dot(h_relu_val', w2)
    /\ loss_val' = sum(square(minus(y_pred_val', y_val)))
    /\ cost_val' = Append(cost_val, loss_val')
    /\ pc' = goto("validation")
    /\ UNCHANGED <<data, weights, forward, grads, cost, counter, scalars,
                   ghost>>

\* The backward pass fed with the validation pass.
Backprop_on_validation ==
    /\ pc = "backprop"
    /\ grad_y_pred' = times(2, minus(y_pred_val, y_val))
    /\ grad_w2' = dot(T(h_relu_val), grad_y_pred')
    /\ grad_h_relu' = dot(grad_y_pred', T(w2))
    /\ grad_h' = masked(grad_h_relu', h_val)
    /\ grad_w1' = dot(T(x_val), grad_h')
    /\ pc' = goto("backprop")
    /\ UNCHANGED <<data, weights, forward, valpass, histories, scalars,
                   ghost>>

\* The backward pass with the gradient of w2 laid out as its transpose.
Backprop_grad_w2_transposed ==
    /\ pc = "backprop"
    /\ grad_y_pred' = times(2, minus(y_pred, y))
    /\ grad_w2' = dot(T(grad_y_pred'), h_relu)
    /\ grad_h_relu' = dot(grad_y_pred', T(w2))
    /\ grad_h' = masked(grad_h_relu', h)
    /\ grad_w1' = dot(T(x), grad_h')
    /\ pc' = goto("backprop")
    /\ UNCHANGED <<data, weights, forward, valpass, histories, scalars,
                   ghost>>

\* Lines 262-267.
Backprop ==
    /\ pc = "backprop"
    /\ grad_y_pred' = times(2, minus(y_pred, y))
    /\ grad_w2' = dot(T(h_relu), grad_y_pred')
    /\ grad_h_relu' = dot(grad_y_pred', T(w2))
    /\ grad_h' = masked(grad_h_relu', h)
    /\ grad_w1' = dot(T(x), grad_h')
    /\ pc' = goto("backprop")
    /\ UNCHANGED <<data, weights, forward, valpass, histories, scalars,
                   ghost>>

\* The update done one array after the other: w2 first, then the gradient
\* of w1 taken again through the new w2.
Update_sequential ==
    /\ pc = "update"
    /\ w2' = minus(w2, lr_times(grad_w2))
    /\ grad_h_relu' = dot(grad_y_pred, T(w2'))
    /\ grad_h' = masked(grad_h_relu', h)
    /\ grad_w1' = dot(T(x), grad_h')
    /\ w1' = minus(w1, lr_times(grad_w1'))
    /\ nupdates' = nupdates + 1
    /\ pc' = goto("update")
    /\ UNCHANGED <<data, forward, grad_y_pred, grad_w2, valpass, histories,
                   scalars, w1_init, w2_init, w1_start, w2_start>>

\* Lines 270-271.
Update ==
    /\ pc = "update"
    /\ w1' = minus(w1, lr_times(grad_w1))
    /\ w2' = minus(w2, lr_times(grad_w2))
    /\ nupdates' = nupdates + 1
    /\ pc' = goto("update")
    /\ UNCHANGED <<data, forward, grads, valpass, histories, scalars,
                   w1_init, w2_init, w1_start, w2_start>>

Next ==
    \/ In3 \/ In4 \/ In5 \/ In6 \/ In7
    \/ For \/ Forward \/ Loss \/ Validation \/ Backprop \/ Update

Spec == Init /\ [][Next]_vars

\* The interpreter runs the script to its end: it never pauses forever with
\* a statement left to run.  Termination is checked from the initial states
\* with one x, one w2 and constant targets, which include runs whose loss is
\* 0 from the start and runs whose weights move.
FairInit ==
    /\ Init
    /\ x = Sample(N, D_in, 20, 1, 0)
    /\ y \in randn(N, D_out, 500, {0})
    /\ w2 = Sample(H, D_out, 10, 1, 0)

FairSpec == FairInit /\ [][Next]_vars /\ WF_vars(Next)

(***************************************************************************)
(* The script's computations as functions of their inputs, for stating     *)
(* what the recorded values and the weights are.                           *)
(***************************************************************************)
\* Lines 245-247 (and 129-131, 255-257): the prediction for inputs X.
predict(X, W1, W2) == dot(maximum(dot(X, W1), 0), W2)

\* Lines 250, 258 (and 157): the loss of prediction P against target Y.
squared_error(P, Y) == sum(square(minus(P, Y)))

\* Lines 245-247 and 262-271 (and In[3], In[5], In[6]): the weights after one
\* forward pass, backward pass and update from W1, W2 on the data X, Y.
descent_step(X, Y, W1, W2) ==
    LET hh == dot(X, W1)
        hr == maximum(hh, 0)
        yp == dot(hr, W2)
        gy == times(2, minus(yp, Y))
        gw2 == dot(T(hr), gy)
        gh == masked(dot(gy, T(W2)), hh)
        gw1 == dot(T(X), gh)
    IN  <<minus(W1, lr_times(gw1)), minus(W2, lr_times(gw2))>>

\* The weights after k such steps.
RECURSIVE descend(_, _, _, _, _)
descend(X, Y, W1, W2, k) ==
    IF k = 0 THEN <<W1, W2>>
    ELSE LET s == descent_step(X, Y, W1, W2)
         IN  descend(X, Y, s[1], s[2], k - 1)

InLoop ==
    pc \in {"for", "forward", "loss", "validation", "backprop", "update",
            "done"}

IsPrefix(s, u) == Len(s) <= Len(u) /\ \A i \in 1..Len(s) : s[i] = u[i]

Entries(A) == {<<i, j>> : i \in 1..Len(A), j \in 1..Len(A[1])}

(***************************************************************************)
(* C1.  In every loop iteration the training loss and the validation loss  *)
(* that are appended are those of the weights the iteration began with,    *)
(* and the weights are not updated until both have been appended.          *)
(***************************************************************************)
C1_LossesBeforeUpdate ==
    (InLoop /\ t >= 0) =>
        /\ Len(cost) = t + 1 =>
               cost[t + 1] = squared_error(predict(x, w1_start, w2_start), y)
        /\ Len(cost_val) = t + 1 =>
               cost_val[t + 1] =
                   squared_error(predict(x_val, w1_start, w2_start), y_val)
        /\ (Len(cost) < t + 1 \/ Len(cost_val) < t + 1) =>
               (w1 = w1_start /\ w2 = w2_start)

\* An iteration is over, its update changed the weights, and the validation
\* loss it recorded is not the one the updated weights give.
C1_Witness ==
    /\ pc = "for" /\ t >= 1
    /\ <<w1, w2>> # <<w1_start, w2_start>>
    /\ Len(cost) = t + 1 /\ Len(cost_val) = t + 1
    /\ cost_val[t + 1] # squared_error(predict(x_val, w1, w2), y_val)
    /\ cost[t + 1] # squared_error(predict(x, w1, w2), y)

(***************************************************************************)
(* C2.  The validation data never influence the weights: after any number  *)
(* of updates, W1 and W2 are the weights that many gradient-descent steps  *)
(* on X, Y alone lead to from the initial weights, and every recorded      *)
(* training loss is the loss of such weights, whatever X_val and Y_val     *)
(* are.  Two runs that differ only in X_val, Y_val therefore agree on W1,  *)
(* W2 and on the training-loss history.                                    *)
(***************************************************************************)
C2_ValidationNeverInfluencesWeights ==
    /\ <<w1, w2>> = descend(x, y, w1_init, w2_init, nupdates)
    /\ \A i \in 1..Len(cost) :
           LET w == descend(x, y, w1_init, w2_init, i)
           IN  cost[i] = squared_error(predict(x, w[1], w[2]), y)

\* The loop is over, the validation data are not the training data, the
\* validation losses are not the training losses, and the weights moved in
\* the loop.
C2_Witness ==
    /\ pc = "done"
    /\ x_val # x /\ y_val # y
    /\ \A i \in 1..niteration : cost_val[i] # cost[i]
    /\ <<w1, w2>> # descend(x, y, w1_init, w2_init, 1)

(***************************************************************************)
(* C3 as claimed.  When loop iteration t begins, t updates have been       *)
(* applied to the randomly initialized weights; the first recorded         *)
(* training loss is the loss of the initial weights; after the loop        *)
(* niteration updates have been applied.                                   *)
(***************************************************************************)
C3_LoopStartsFromInitialWeights ==
    /\ pc = "forward" => nupdates = t
    /\ Len(cost) >= 1 =>
           cost[1] = squared_error(predict(x, w1_init, w2_init), y)
    /\ pc = "done" => nupdates = niteration

(***************************************************************************)
(* C3 as amended.  In[6] has already applied one update when the loop      *)
(* starts: when loop iteration t begins, t + 1 updates have been applied   *)
(* since the random initialization; the first recorded training loss is    *)
(* the loss of the weights after one update; after the loop niteration + 1 *)
(* updates have been applied.                                              *)
(***************************************************************************)
C3_LoopStartsAfterOneUpdate ==
    /\ pc = "forward" =>
           /\ nupdates = t + 1
           /\ <<w1, w2>> = descend(x, y, w1_init, w2_init, t + 1)
    /\ Len(cost) >= 1 =>
           LET w == descent_step(x, y, w1_init, w2_init)
           IN  cost[1] = squared_error(predict(x, w[1], w[2]), y)
    /\ pc = "done" => nupdates = niteration + 1

\* The loop is over and its first recorded loss is not the loss In[4]
\* computed for the initial weights.
C3_Witness ==
    /\ pc = "done"
    /\ total_cost = squared_error(predict(x, w1_init, w2_init), y)
    /\ cost[1] # total_cost
    /\ nupdates = niteration + 1

(***************************************************************************)
(* C4.  The training loop always terminates, after exactly niteration      *)
(* iterations, whatever the losses, gradients and weights are: every run   *)
(* comes to the end of the script with the loop variable having taken the  *)
(* values 0 .. niteration - 1 and one loss of each kind recorded for each. *)
(* (The script stops at "done", so a run that left the loop early or late  *)
(* would never reach this state.)                                          *)
(***************************************************************************)
C4_ExactlyNiterationIterations ==
    <>(/\ pc = "done"
       /\ range_next = niteration /\ t = niteration - 1
       /\ counter = [i \in 1..niteration |-> i - 1]
       /\ Len(cost) = niteration /\ Len(cost_val) = niteration)

\* The loop ran to its end although the loss was 0 and both gradients were
\* zero in its first iteration already.
C4_Witness ==
    /\ pc = "done"
    /\ cost[1] = 0
    /\ \A e \in Entries(grad_w1) : grad_w1[e[1]][e[2]] = 0
    /\ \A e \in Entries(grad_w2) : grad_w2[e[1]][e[2]] = 0

(***************************************************************************)
(* C5.  The loss histories are append-only with one entry per iteration:   *)
(* after k completed iterations each has k entries, and every step leaves  *)
(* the entries already there as they are.                                  *)
(***************************************************************************)
C5_HistoriesAppendOnly ==
    /\ [][IsPrefix(cost, cost') /\ IsPrefix(cost_val, cost_val')]_vars
    /\ [](pc \in {"for", "done"} =>
              Len(cost) = range_next /\ Len(cost_val) = range_next)

\* Two iterations are complete and recorded different losses.
C5_Witness ==
    /\ pc = "for" /\ range_next = 2
    /\ Len(cost) = 2 /\ cost[1] # cost[2]
    /\ Len(cost_val) = 2 /\ cost_val[1] # cost_val[2]

(***************************************************************************)
(* C6.  After the backward pass grad_h equals grad_h_relu at every entry   *)
(* where h >= 0 (h = 0 included) and is 0 at every entry where h < 0.      *)
(***************************************************************************)
C6_GradMaskedWhereNegative ==
    (pc \in {"In6", "update"}) =>
        \A e \in Entries(h) :
            LET i == e[1]
                j == e[2]
            IN  IF h[i][j] >= 0
                THEN grad_h[i][j] = grad_h_relu[i][j]
                ELSE grad_h[i][j] = 0

\* A backward pass in the loop met an entry with h = 0 whose gradient is
\* kept and is not 0, and an entry with h < 0 whose gradient was not 0.
C6_Witness ==
    /\ pc = "update"
    /\ \E e \in Entries(h) : h[e[1]][e[2]] = 0 /\ grad_h[e[1]][e[2]] # 0
    /\ \E e \in Entries(h) : h[e[1]][e[2]] < 0 /\ grad_h_relu[e[1]][e[2]] # 0

(***************************************************************************)
(* C7.  No step modifies X or Y, and none modifies X_val or Y_val once     *)
(* In[7] has drawn them.                                                   *)
(***************************************************************************)
C7_DataNeverModified ==
    [][/\ x' = x /\ y' = y
       /\ pc # "In7" => (x_val' = x_val /\ y_val' = y_val)]_vars

\* The loop is over and has changed the weights and filled the histories.
C7_Witness ==
    /\ pc = "done"
    /\ <<w1, w2>> # <<w1_init, w2_init>>
    /\ Len(cost) = niteration /\ Len(cost_val) = niteration
    /\ shape(x_val) = <<N, D_in>> /\ shape(y_val) = <<N, D_out>>

(***************************************************************************)
(* C8.  h_relu is elementwise >= 0, equals h wherever h >= 0 and is 0      *)
(* wherever h < 0, where h = x . w1; the same holds of the validation      *)
(* pass.                                                                   *)
(***************************************************************************)
C8_ReluOfHidden ==
    /\ pc \in {"In4", "loss"} =>
           /\ \A e \in {<<i, j>> : i \in 1..N, j \in 1..H} :
                  h[e[1]][e[2]] =
                      Sum([k \in 1..D_in |-> x[e[1]][k] * w1[k][e[2]]])
           /\ \A e \in Entries(h) :
                  LET i == e[1]
                      j == e[2]
                  IN  /\ h_relu[i][j] >= 0
                      /\ h[i][j] >= 0 => h_relu[i][j] = h[i][j]
                      /\ h[i][j] < 0 => h_relu[i][j] = 0
    /\ pc = "backprop" =>
           \A e \in Entries(h_val) :
               LET i == e[1]
                   j == e[2]
               IN  /\ h_relu_val[i][j] >= 0
                   /\ h_val[i][j] >= 0 => h_relu_val[i][j] = h_val[i][j]
                   /\ h_val[i][j] < 0 => h_relu_val[i][j] = 0

\* A forward pass in the loop produced negative, zero and positive
\* pre-activations.
C8_Witness ==
    /\ pc = "loss"
    /\ \E e \in Entries(h) : h[e[1]][e[2]] < 0
    /\ \E e \in Entries(h) : h[e[1]][e[2]] = 0
    /\ \E e \in Entries(h) : h[e[1]][e[2]] > 0

(***************************************************************************)
(* C9.  Every recorded loss, training or validation, is the sum over all   *)
(* entries of the squared difference between prediction and target, not    *)
(* normalised; it is >= 0, and it is 0 exactly when the prediction equals  *)
(* the target at every entry.                                              *)
(***************************************************************************)
C9_LossIsSumOfSquares ==
    LET SumOfSquares(P, Y) ==
            Sum([i \in 1..N |->
                Sum([j \in 1..D_out |->
                    (P[i][j] - Y[i][j]) * (P[i][j] - Y[i][j])])])
    IN  /\ \A i \in 1..Len(cost) : cost[i] >= 0
        /\ \A i \in 1..Len(cost_val) : cost_val[i] >= 0
        /\ (InLoop /\ t >= 0 /\ Len(cost) = t + 1) =>
               /\ cost[t + 1] = SumOfSquares(y_pred, y)
               /\ cost[t + 1] = 0 <=> y_pred = y
        /\ (InLoop /\ t >= 0 /\ Len(cost_val) = t + 1) =>
               /\ cost_val[t + 1] = SumOfSquares(y_pred_val, y_val)
               /\ cost_val[t + 1] = 0 <=> y_pred_val = y_val

\* An iteration recorded a training loss of 0 and a validation loss that is
\* not 0.
C9_Witness ==
    /\ pc = "backprop"
    /\ cost[t + 1] = 0 /\ y_pred = y
    /\ cost_val[t + 1] > 0 /\ y_pred_val # y_val

(***************************************************************************)
(* C10.  The forward pass leaves X, W1 and W2 unchanged, and evaluated     *)
(* twice on the same X, W1, W2 with no update in between (the training     *)
(* pass and the validation pass of one iteration, when X_val = X) it       *)
(* yields the same h, h_relu and y_pred.                                   *)
(***************************************************************************)
C10_ForwardPassPure ==
    /\ [][(pc \in {"In3", "forward", "validation"}) =>
              (x' = x /\ x_val' = x_val /\ w1' = w1 /\ w2' = w2)]_vars
    /\ []((pc = "backprop" /\ x_val = x) =>
              (h_val = h /\ h_relu_val = h_relu /\ y_pred_val = y_pred))

\* Both passes of a later iteration ran on the same inputs, with negative
\* and positive pre-activations and a prediction that is not 0.
C10_Witness ==
    /\ pc = "backprop" /\ t >= 1 /\ x_val = x
    /\ \E e \in Entries(h) : h[e[1]][e[2]] < 0
    /\ \E e \in Entries(h) : h[e[1]][e[2]] > 0
    /\ \E e \in Entries(y_pred) : y_pred[e[1]][e[2]] # 0
    /\ h_val = h /\ y_pred_val = y_pred

(***************************************************************************)
(* C11.  Shapes are preserved in every reachable state: h and h_relu have  *)
(* shape [N, H], y_pred has shape [N, D_out], grad_w1 has the shape of w1, *)
(* [D_in, H], and grad_w2 has the shape of w2, [H, D_out], so w1 and w2    *)
(* keep their initial shapes after every update.                           *)
(***************************************************************************)
C11_ShapesPreserved ==
    /\ shape(w1) = <<D_in, H>> /\ shape(w1) = shape(w1_init)
    /\ shape(w2) = <<H, D_out>> /\ shape(w2) = shape(w2_init)
    /\ pc # "In3" =>
           /\ shape(h) = <<N, H>> /\ shape(h_relu) = <<N, H>>
           /\ shape(y_pred) = <<N, D_out>>
    /\ pc \notin {"In3", "In4", "In5"} =>
           /\ shape(grad_w1) = shape(w1)
           /\ shape(grad_w2) = shape(w2)

\* A later iteration's update has just moved the weights, and the four
\* dimensions differ, so that no two of the shapes above coincide.
C11_Witness ==
    /\ pc = "for" /\ t >= 1 /\ nupdates = t + 2
    /\ <<w1, w2>> # <<w1_start, w2_start>>
    /\ Cardinality({N, D_in, H, D_out}) = 4
    /\ shape(grad_w1) = <<D_in, H>> /\ shape(grad_w2) = <<H, D_out>>

(***************************************************************************)
(* C12.  One iteration from the freshly initialized weights, In[3]..In[6], *)
(* and the training loss before and after it: total_cost is the loss of    *)
(* the initial weights and cost[1], the first loss the loop records, is    *)
(* the loss of the weights after that one update.                          *)
(***************************************************************************)
\* Some entry of a gradient of In[5] is not 0.
NonStationary ==
    \/ \E e \in Entries(grad_w1) : grad_w1[e[1]][e[2]] # 0
    \/ \E e \in Entries(grad_w2) : grad_w2[e[1]][e[2]] # 0

\* The loop has recorded its first loss and the gradients are still those
\* of In[5].
AfterOneIteration == pc = "validation" /\ t = 0 /\ nupdates = 1

C13_GradientsFromPreUpdateWeights ==
    LET hh == dot(x, w1_start)
        hr == maximum(hh, 0)
        gy == times(2, minus(dot(hr, w2_start), y))
        FromStart ==
            /\ grad_w2 = dot(T(hr), gy)
            /\ grad_w1 = dot(T(x), masked(dot(gy, T(w2_start)), hh))
    IN  /\ pc = "update" => FromStart
        /\ (pc \in {"for", "done"} /\ t >= 0) =>
               /\ FromStart
               /\ w1 = minus(w1_start, lr_times(grad_w1))
               /\ w2 = minus(w2_start, lr_times(grad_w2))

\* A loop iteration's update has just changed both weight arrays, and the
\* gradient of w1 taken through the new w2 would have been another one.
C13_Witness ==
    /\ pc = "for" /\ t >= 0 /\ range_next = t + 1
    /\ w1 # w1_start /\ w2 # w2_start
    /\ grad_w1 # dot(T(x), masked(dot(grad_y_pred, T(w2)), h))

====
